---- MODULE Spec2Model ----
(***************************************************************************)
(* Model of two pieces of the spinnaker release/test tooling:              *)
(*   - dev/buildtool/debian_commands.py: BuildDebianCommand, the bounded   *)
(*     build dispatcher (construction checks, _do_can_skip_repository,     *)
(*     _do_repository under a counting semaphore);                         *)
(*   - testing/citest/spinnaker_testing/gcs_pubsub_trigger_agent.py: the   *)
(*     upload-then-poll trigger operation and its status object.           *)
(***************************************************************************)
EXTENDS Integers, Sequences, FiniteSets, TLC

(***************************************************************************)
(* Bounds of the model.                                                    *)
(***************************************************************************)
\* number of concurrent _do_repository / _do_can_skip_repository invocations
NumBuilds == 3
\* options.max_local_builds ranges over 1..MaxCapacity
MaxCapacity == 2
\* the clock runs over 0..MaxTime minutes
MaxTime == 8
\* timeout_delta is assigned values of 0..MaxTimeoutDelta minutes
MaxTimeoutDelta == 6

(***************************************************************************)
(* Values.                                                                 *)
(***************************************************************************)
\* Python's None (an unset option, an absent environment variable)
None == "None"

Builds == 1..NumBuilds
Capacities == 1..MaxCapacity

\* the repository each invocation is given (repository.name)
RepositoryName(b) ==
  CASE b = 1 -> "deck"
    [] b = 2 -> "spin"
    [] b = 3 -> "orca"
    [] OTHER -> "gate"

NON_DEBIAN_BOM_REPOSITORIES == {"spin"}

\* os.environ: a variable is absent (None), empty or set
EnvValues == {None, "", "x"}
\* the options check_options_set is given
RequiredOptions ==
  {"bintray_org", "bintray_jar_repository",
   "bintray_debian_repository", "bintray_publish_wait_secs"}
OptionNames ==
  RequiredOptions \cup
    {"max_local_builds", "run_unit_tests", "gradle_cache_path",
     "github_disable_upstream_push"}

\* versions the source code manager can report for a repository
Versions == {"1.0.0-1", "1.0.1-2"}

VARIABLES
  environ,      \* os.environ restricted to the names the command reads
  options,      \* the options object handed to the constructor
  options0,     \* the options object as the caller built it (history)
  command,      \* "new" | "constructed" | "config_error"
  semaphore,    \* value of self.__semaphore, None before construction
  build,        \* build[b]: one _do_repository invocation
  skip          \* skip[b]: one _do_can_skip_repository invocation

dvars == <<environ, options, options0, command, semaphore, build, skip>>

VARIABLES
  now,            \* datetime.datetime.utcnow(), in minutes
  operation,      \* the GcsPubsubUploadTriggerOperation and its execute() call
  calls,          \* calls made on the upload agent and on the gate agent
  trigger_status, \* the delegate status_class(operation) object
  status,         \* the GcsPubsubTriggerOperationStatus object
  refreshed,      \* whether refresh() was ever called on the status (history)
  last            \* what the last step did (history)

tvars == <<now, operation, calls, trigger_status, status, refreshed, last>>

vars == <<dvars, tvars>>

(***************************************************************************)
(* The two subsystems share no state: each specification holds the other   *)
(* subsystem in the state below.                                           *)
(***************************************************************************)
NoStatus ==
  [live |-> FALSE, start |-> 0, timeout_delta |-> 0,
   is_timed_out |-> FALSE, finished_ok |-> FALSE]
NoDelegate == [bound |-> FALSE, finished_ok |-> FALSE]
NoStep == [op |-> "none", pre_ok |-> FALSE, pre_timed_out |-> FALSE,
           polled |-> FALSE, reported |-> FALSE, first |-> FALSE]

\* the trigger operation constructed with the upload agent, not yet executed
NoOperation ==
  /\ now = 0
  /\ operation = [pc |-> "created", agent |-> "gcs_pubsub_agent", get_issued_at |-> 0]
  /\ calls = [upload_file |-> 0, upload_file_ok |-> 0, get |-> 0]
  /\ trigger_status = NoDelegate
  /\ status = NoStatus
  /\ refreshed = FALSE
  /\ last = NoStep

(***************************************************************************)
(* Construction: BuildDebianCommand.__init__                               *)
(***************************************************************************)
\* Python truthiness of os.environ.get(name)
Truthy(v) == v # None /\ v # ""

\* buildtool.check_options_set: every named option has a value
CheckOptionsSet(opts, names) == \A n \in names : opts[n] # None

\* ConfigCheck testing the credentials with "is None" instead of truthiness
ConfigCheckIsNone(env, opts) ==
  IF env["BINTRAY_KEY"] = None THEN "Expected BINTRAY_KEY set."
  ELSE IF env["BINTRAY_USER"] = None THEN "Expected BINTRAY_USER set."
  ELSE IF ~CheckOptionsSet(opts, RequiredOptions) THEN "options not set"
  ELSE "ok"

\* the checks of __init__ in order; the first that fails names the error
ConfigCheck(env, opts) ==
  IF ~Truthy(env["BINTRAY_KEY"]) THEN "Expected BINTRAY_KEY set."
  ELSE IF ~Truthy(env["BINTRAY_USER"]) THEN "Expected BINTRAY_USER set."
  ELSE IF ~CheckOptionsSet(opts, RequiredOptions) THEN "options not set"
  ELSE "ok"

\* trace: the gate and check_run calls the invocation has made, in order
IdleBuild == [pc |-> "idle", args |-> <<>>, acquires |-> 0, runs |-> 0, releases |-> 0,
              trace |-> <<>>]
IdleSkip == [pc |-> "idle", result |-> FALSE, version_lookups |-> <<>>,
             bintray_checks |-> <<>>]

\* each invocation b is one call on the command: either _do_repository or
\* _do_can_skip_repository, for the repository RepositoryName(b)
NotCalled(b) == build[b].pc = "idle" /\ skip[b].pc = "idle"

InitDispatcher ==
  /\ environ \in [{"BINTRAY_KEY", "BINTRAY_USER", "CHROME_BIN"} -> EnvValues]
  /\ \E cap \in Capacities, rut \in BOOLEAN, cache \in {None, "/cache"},
        push \in BOOLEAN, req \in [RequiredOptions -> {None, "set"}] :
       options = [n \in OptionNames |->
                    CASE n = "max_local_builds" -> cap
                      [] n = "run_unit_tests" -> rut
                      [] n = "gradle_cache_path" -> cache
                      [] n = "github_disable_upstream_push" -> push
                      [] OTHER -> req[n]]
  /\ options0 = options
  /\ command = "new"
  /\ semaphore = None
  /\ build = [b \in Builds |-> IdleBuild]
  /\ skip = [b \in Builds |-> IdleSkip]
  \* the trigger operation is not part of this specification
  /\ NoOperation

\* Construct forcing github_disable_upstream_push only once the checks passed
ConstructCheckingFirst ==
  /\ command = "new"
  /\ options' = IF ConfigCheck(environ, options) = "ok"
                  THEN [options EXCEPT !["github_disable_upstream_push"] = TRUE]
                  ELSE options
  /\ semaphore' = options["max_local_builds"]
  /\ command' = IF ConfigCheck(environ, options) = "ok"
                  THEN "constructed" ELSE "config_error"
  /\ UNCHANGED <<environ, options0, build, skip, tvars>>

Construct ==
  /\ command = "new"
  /\ options' = [options EXCEPT !["github_disable_upstream_push"] = TRUE]
  /\ semaphore' = options["max_local_builds"]
  /\ command' = IF ConfigCheck(environ, options) = "ok"
                  THEN "constructed" ELSE "config_error"
  /\ UNCHANGED <<environ, options0, build, skip, tvars>>

(***************************************************************************)
(* _do_repository                                                          *)
(***************************************************************************)
\* gradle.get_common_args() and gradle.get_debian_args(distros)
CommonArgs == <<"--common">>
DebianArgs(distros) == <<"-PdebDistribution=" \o distros>>

\* Args testing CHROME_BIN by truthiness of its value instead of presence
ArgsChromeBinTruthy(opts, env, name, init_publish_isfile) ==
  CommonArgs
    \o (IF opts["gradle_cache_path"] # None
          THEN <<"--gradle-user-home=" \o opts["gradle_cache_path"]>> ELSE <<>>)
    \o (IF ~opts["run_unit_tests"] \/ (name = "deck" /\ ~Truthy(env["CHROME_BIN"]))
          THEN <<"-x test">> ELSE <<>>)
    \o (IF init_publish_isfile THEN <<"-I gradle/init-publish.gradle">> ELSE <<>>)
    \o DebianArgs("trusty,xenial,bionic")

Args(opts, env, name, init_publish_isfile) ==
  CommonArgs
    \o (IF opts["gradle_cache_path"] # None
          THEN <<"--gradle-user-home=" \o opts["gradle_cache_path"]>> ELSE <<>>)
    \o (IF ~opts["run_unit_tests"] \/ (name = "deck" /\ env["CHROME_BIN"] = None)
          THEN <<"-x test">> ELSE <<>>)
    \o (IF init_publish_isfile THEN <<"-I gradle/init-publish.gradle">> ELSE <<>>)
    \o DebianArgs("trusty,xenial,bionic")

\* lines 56-69: assemble the argument list, then reach the with statement
DoRepositoryArgs(b) ==
  /\ command = "constructed"
  /\ NotCalled(b)
  /\ \E isfile \in BOOLEAN :
       build' = [build EXCEPT ![b].pc = "acquire",
                              ![b].args = Args(options, environ, RepositoryName(b), isfile)]
  /\ UNCHANGED <<environ, options, options0, command, semaphore, skip, tvars>>

\* SemaphoreAcquire with a non-blocking acquire whose result is ignored
SemaphoreAcquireNonBlocking(b) ==
  /\ build[b].pc = "acquire"
  /\ semaphore' = IF semaphore > 0 THEN semaphore - 1 ELSE semaphore
  /\ build' = [build EXCEPT ![b].pc = "check_run",
                            ![b].acquires = @ + (IF semaphore > 0 THEN 1 ELSE 0),
                            ![b].runs = @ + 1,
                            ![b].trace = @ \o (IF semaphore > 0 THEN <<"acquire">> ELSE <<>>)
                                           \o <<"check_run">>]
  /\ UNCHANGED <<environ, options, options0, command, skip, tvars>>

\* Semaphore.acquire(): blocks while the value is 0
SemaphoreAcquire(b) ==
  /\ build[b].pc = "acquire"
  /\ semaphore > 0
  /\ semaphore' = semaphore - 1
  /\ build' = [build EXCEPT ![b].pc = "check_run",
                            ![b].acquires = @ + 1,
                            ![b].runs = @ + 1,
                            ![b].trace = @ \o <<"acquire", "check_run">>]
  /\ UNCHANGED <<environ, options, options0, command, skip, tvars>>

\* gradle.check_run returns normally
CheckRunReturn(b) ==
  /\ build[b].pc = "check_run"
  /\ build' = [build EXCEPT ![b].pc = "exit_ok"]
  /\ UNCHANGED <<environ, options, options0, command, semaphore, skip, tvars>>

\* CheckRunRaise with one retry of a failed check_run inside the with block
CheckRunRaiseRetrying(b) ==
  /\ build[b].pc = "check_run"
  /\ build' = IF build[b].runs < 2
                THEN [build EXCEPT ![b].runs = @ + 1,
                                   ![b].trace = @ \o <<"check_run">>]
                ELSE [build EXCEPT ![b].pc = "exit_raise"]
  /\ UNCHANGED <<environ, options, options0, command, semaphore, skip, tvars>>

\* gradle.check_run raises
CheckRunRaise(b) ==
  /\ build[b].pc = "check_run"
  /\ build' = [build EXCEPT ![b].pc = "exit_raise"]
  /\ UNCHANGED <<environ, options, options0, command, semaphore, skip, tvars>>

\* SemaphoreRelease as acquire(); check_run(); release() without try/finally:
\* an exception skips the release
SemaphoreReleaseUnlessRaised(b) ==
  /\ build[b].pc \in {"exit_ok", "exit_raise"}
  /\ semaphore' = IF build[b].pc = "exit_ok" THEN semaphore + 1 ELSE semaphore
  /\ build' = [build EXCEPT ![b].pc = IF build[b].pc = "exit_ok" THEN "done" ELSE "failed",
                            ![b].args = <<>>,
                            ![b].releases = @ + (IF build[b].pc = "exit_ok" THEN 1 ELSE 0),
                            ![b].trace = @ \o (IF build[b].pc = "exit_ok"
                                                 THEN <<"release">> ELSE <<>>)]
  /\ UNCHANGED <<environ, options, options0, command, skip, tvars>>

\* Semaphore.__exit__: release on the way out of the with block
SemaphoreRelease(b) ==
  /\ build[b].pc \in {"exit_ok", "exit_raise"}
  /\ semaphore' = semaphore + 1
  /\ build' = [build EXCEPT ![b].pc = IF build[b].pc = "exit_ok" THEN "done" ELSE "failed",
                            ![b].args = <<>>,
                            ![b].releases = @ + 1,
                            ![b].trace = @ \o <<"release">>]
  /\ UNCHANGED <<environ, options, options0, command, skip, tvars>>

(***************************************************************************)
(* _do_can_skip_repository                                                 *)
(***************************************************************************)
\* the call on repository `name`, where the source code manager would answer
\* `version` and bintray would answer `published`; the record keeps the
\* return value and the collaborator calls made, with their answers
\* CanSkipRepository without the test against NON_DEBIAN_BOM_REPOSITORIES
CanSkipRepositoryNoExclusion(name, version, published) ==
  [pc |-> "returned", result |-> published,
   version_lookups |-> <<[repository |-> name, answer |-> version]>>,
   bintray_checks |-> <<[repository |-> name, build_version |-> version,
                         answer |-> published]>>]

CanSkipRepository(name, version, published) ==
  IF name \in NON_DEBIAN_BOM_REPOSITORIES
    THEN [pc |-> "returned", result |-> TRUE,
          version_lookups |-> <<>>, bintray_checks |-> <<>>]
    ELSE [pc |-> "returned", result |-> published,
          version_lookups |-> <<[repository |-> name, answer |-> version]>>,
          bintray_checks |-> <<[repository |-> name, build_version |-> version,
                                answer |-> published]>>]

DoCanSkipRepository(b) ==
  /\ command = "constructed"
  /\ NotCalled(b)
  /\ \E version \in Versions, published \in BOOLEAN :
       skip' = [skip EXCEPT ![b] = CanSkipRepository(RepositoryName(b), version, published)]
  /\ UNCHANGED <<environ, options, options0, command, semaphore, build, tvars>>

NextDispatcher ==
  \/ Construct
  \/ \E b \in Builds : DoCanSkipRepository(b)
  \/ \E b \in Builds : DoRepositoryArgs(b)
  \/ \E b \in Builds : SemaphoreAcquire(b)
  \/ \E b \in Builds : CheckRunReturn(b)
  \/ \E b \in Builds : CheckRunRaise(b)
  \/ \E b \in Builds : SemaphoreRelease(b)

SpecDispatcher == InitDispatcher /\ [][NextDispatcher]_vars

(***************************************************************************)
(* The trigger operation: BaseGcsPubsubTriggerOperation.execute,           *)
(* GcsPubsubUploadTriggerOperation._do_execute and                         *)
(* GcsPubsubTriggerOperationStatus.                                        *)
(***************************************************************************)
\* datetime.timedelta(minutes=5)
DefaultTimeout == 5

Times == 0..MaxTime
TimeoutDeltas == 0..MaxTimeoutDelta

Step(name) == [NoStep EXCEPT !.op = name]

InitTrigger ==
  /\ NoOperation
  \* the build dispatcher is not part of this specification
  /\ environ = [n \in {"BINTRAY_KEY", "BINTRAY_USER", "CHROME_BIN"} |-> None]
  /\ options = [n \in OptionNames |-> None]
  /\ options0 = options
  /\ command = "new"
  /\ semaphore = None
  /\ build = [b \in Builds |-> IdleBuild]
  /\ skip = [b \in Builds |-> IdleSkip]

\* Tick with a background timer that marks the status timed out
TickWithTimer ==
  /\ now < MaxTime
  /\ now' = now + 1
  /\ last' = Step("tick")
  /\ status' = IF status.live /\ ~status.finished_ok
                 THEN [status EXCEPT
                         !.is_timed_out = (now' - status.start) > status.timeout_delta]
                 ELSE status
  /\ UNCHANGED <<operation, calls, trigger_status, refreshed, dvars>>

\* time passes
Tick ==
  /\ now < MaxTime
  /\ now' = now + 1
  /\ last' = Step("tick")
  /\ UNCHANGED <<operation, calls, trigger_status, status, refreshed, dvars>>

\* execute() -> _do_execute(): the blocking agent.upload_file call is made
Execute ==
  /\ operation.pc = "created"
  /\ operation' = [operation EXCEPT !.pc = "upload_file"]
  /\ calls' = [calls EXCEPT !.upload_file = @ + 1]
  /\ last' = Step("execute")
  /\ UNCHANGED <<now, trigger_status, status, refreshed, dvars>>

\* UploadFileRaise with the exception caught and logged: _do_execute goes on
\* to construct the status
UploadFileRaiseCaught ==
  /\ operation.pc = "upload_file"
  /\ operation' = [pc |-> "get", agent |-> "gate_agent", get_issued_at |-> now]
  /\ trigger_status' = [bound |-> TRUE, finished_ok |-> FALSE]
  /\ calls' = [calls EXCEPT !.get = @ + 1]
  /\ last' = Step("upload_raised")
  /\ UNCHANGED <<now, status, refreshed, dvars>>

\* upload_file raises: the exception leaves _do_execute and execute
UploadFileRaise ==
  /\ operation.pc = "upload_file"
  /\ operation' = [operation EXCEPT !.pc = "upload_raised"]
  /\ last' = Step("upload_raised")
  /\ UNCHANGED <<now, calls, trigger_status, status, refreshed, dvars>>

\* upload_file returns; the status constructor runs up to its blocking
\* gate_agent.get call: it binds the gate agent to the operation and builds
\* the delegate status_class(operation)
UploadFileReturn ==
  /\ operation.pc = "upload_file"
  /\ operation' = [pc |-> "get", agent |-> "gate_agent", get_issued_at |-> now]
  /\ trigger_status' = [bound |-> TRUE, finished_ok |-> FALSE]
  /\ calls' = [calls EXCEPT !.upload_file_ok = @ + 1, !.get = @ + 1]
  /\ last' = Step("upload_returned")
  /\ UNCHANGED <<now, status, refreshed, dvars>>

\* gate_agent.get raises: the exception leaves the constructor, _do_execute
\* and execute; the object under construction is dropped
GetRaise ==
  /\ operation.pc = "get"
  /\ operation' = [operation EXCEPT !.pc = "get_raised"]
  /\ last' = Step("get_raised")
  /\ UNCHANGED <<now, calls, trigger_status, status, refreshed, dvars>>

\* GetReturn with __start taken before the gate_agent.get call was made
GetReturnStartBeforeGet ==
  /\ operation.pc = "get"
  /\ operation' = [operation EXCEPT !.pc = "returned"]
  /\ status' = [live |-> TRUE, start |-> operation.get_issued_at,
                timeout_delta |-> DefaultTimeout,
                is_timed_out |-> FALSE, finished_ok |-> FALSE]
  /\ last' = Step("get_returned")
  /\ UNCHANGED <<now, calls, trigger_status, refreshed, dvars>>

\* gate_agent.get returns: the constructor finishes and execute returns the
\* status
GetReturn ==
  /\ operation.pc = "get"
  /\ operation' = [operation EXCEPT !.pc = "returned"]
  /\ status' = [live |-> TRUE, start |-> now, timeout_delta |-> DefaultTimeout,
                is_timed_out |-> FALSE, finished_ok |-> FALSE]
  /\ last' = Step("get_returned")
  /\ UNCHANGED <<now, calls, trigger_status, refreshed, dvars>>

\* SetTimeoutDelta re-evaluating the timeout against the new value
SetTimeoutDeltaRecomputing(val) ==
  /\ status.live
  /\ status' = [status EXCEPT !.timeout_delta = val,
                              !.is_timed_out = (now - status.start) > val]
  /\ last' = Step("timeout_delta")
  /\ UNCHANGED <<now, operation, calls, trigger_status, refreshed, dvars>>

\* the timeout_delta setter
SetTimeoutDelta(val) ==
  /\ status.live
  /\ status' = [status EXCEPT !.timeout_delta = val]
  /\ last' = Step("timeout_delta")
  /\ UNCHANGED <<now, operation, calls, trigger_status, refreshed, dvars>>

\* TimedOut with >= for >
TimedOutAtOrAfter(ping, start, timeout_delta) == (ping - start) >= timeout_delta

\* TimedOut with the subtraction reversed
TimedOutReversed(ping, start, timeout_delta) == (start - ping) > timeout_delta

\* diff > self.timeout_delta
TimedOut(ping, start, timeout_delta) == (ping - start) > timeout_delta

\* Refresh without the early return on self.__finished_ok
RefreshAlwaysPolling(reported) ==
  /\ status.live
  /\ refreshed' = TRUE
  /\ trigger_status' = [trigger_status EXCEPT !.finished_ok = reported]
  /\ last' = [op |-> "refresh", pre_ok |-> status.finished_ok,
              pre_timed_out |-> status.is_timed_out,
              polled |-> TRUE, reported |-> reported, first |-> ~refreshed]
  /\ status' =
       IF reported
         THEN [status EXCEPT !.finished_ok = TRUE]
         ELSE [status EXCEPT
                 !.finished_ok = FALSE,
                 !.is_timed_out = TimedOut(now, status.start, status.timeout_delta)]
  /\ UNCHANGED <<now, operation, calls, dvars>>

\* Refresh evaluating the timeout before looking at the delegate's answer
RefreshTimeoutFirst(reported) ==
  /\ status.live
  /\ refreshed' = TRUE
  /\ IF status.finished_ok
       THEN /\ last' = [op |-> "refresh", pre_ok |-> TRUE,
                        pre_timed_out |-> status.is_timed_out,
                        polled |-> FALSE, reported |-> FALSE, first |-> ~refreshed]
            /\ UNCHANGED <<status, trigger_status>>
       ELSE /\ trigger_status' = [trigger_status EXCEPT !.finished_ok = reported]
            /\ last' = [op |-> "refresh", pre_ok |-> FALSE,
                        pre_timed_out |-> status.is_timed_out,
                        polled |-> TRUE, reported |-> reported, first |-> ~refreshed]
            /\ status' =
                 [status EXCEPT
                    !.finished_ok = reported,
                    !.is_timed_out = TimedOut(now, status.start, status.timeout_delta)]
  /\ UNCHANGED <<now, operation, calls, dvars>>

\* refresh(), where the delegate would report finished_ok = reported
Refresh(reported) ==
  /\ status.live
  /\ refreshed' = TRUE
  /\ IF status.finished_ok
       THEN /\ last' = [op |-> "refresh", pre_ok |-> TRUE,
                        pre_timed_out |-> status.is_timed_out,
                        polled |-> FALSE, reported |-> FALSE, first |-> ~refreshed]
            /\ UNCHANGED <<status, trigger_status>>
       ELSE /\ trigger_status' = [trigger_status EXCEPT !.finished_ok = reported]
            /\ last' = [op |-> "refresh", pre_ok |-> FALSE,
                        pre_timed_out |-> status.is_timed_out,
                        polled |-> TRUE, reported |-> reported, first |-> ~refreshed]
            /\ status' =
                 IF reported
                   THEN [status EXCEPT !.finished_ok = TRUE]
                   ELSE [status EXCEPT
                           !.finished_ok = FALSE,
                           !.is_timed_out = TimedOut(now, status.start, status.timeout_delta)]
  /\ UNCHANGED <<now, operation, calls, dvars>>

\* the finished property
Finished(st) == st.finished_ok \/ st.is_timed_out

NextTrigger ==
  \/ Tick
  \/ Execute
  \/ UploadFileRaise
  \/ UploadFileReturn
  \/ GetRaise
  \/ GetReturn
  \/ \E val \in TimeoutDeltas : SetTimeoutDelta(val)
  \/ \E reported \in BOOLEAN : Refresh(reported)

SpecTrigger == InitTrigger /\ [][NextTrigger]_vars

(***************************************************************************)
(* Properties of the build dispatcher.                                     *)
(***************************************************************************)
\* the invocations inside the gradle.check_run call
InCheckRun == {b \in Builds : build[b].pc = "check_run"}
\* the invocations between their acquire and their release
HoldingGate == {b \in Builds : build[b].pc \in {"check_run", "exit_ok", "exit_raise"}}

\* C1: the number of invocations simultaneously inside check_run never
\* exceeds the capacity max_local_builds the command was constructed with.
C1_ConcurrencyBound == Cardinality(InCheckRun) <= options0["max_local_builds"]

\* C1 witness: check_run is at capacity while another invocation is blocked
\* on the gate.
C1_Witness ==
  /\ Cardinality(InCheckRun) = options0["max_local_builds"]
  /\ \E b \in Builds : build[b].pc = "acquire"

\* C2: every acquire of an invocation is matched by exactly one release once
\* the invocation has left the with block, whether check_run returned or
\* raised, and never by more; and whenever no invocation holds the gate the
\* free permits equal the configured capacity.
C2_AcquireReleasePaired ==
  /\ \A b \in Builds :
       /\ build[b].releases <= build[b].acquires
       /\ build[b].pc \in {"done", "failed"} =>
            build[b].acquires = 1 /\ build[b].releases = 1
       /\ build[b].pc \in {"check_run", "exit_ok", "exit_raise"} =>
            build[b].acquires = 1 /\ build[b].releases = 0
  /\ (command = "constructed" /\ HoldingGate = {}) =>
       semaphore = options0["max_local_builds"]

\* C2 witness: a build has failed, another has succeeded, and nothing is in
\* flight.
C2_Witness ==
  /\ HoldingGate = {}
  /\ \E b \in Builds : build[b].pc = "failed"
  /\ \E b \in Builds : build[b].pc = "done"

\* the configurations C3 speaks of, as the caller built them
ConfigMissing ==
  \/ environ["BINTRAY_KEY"] \in {None, ""}
  \/ environ["BINTRAY_USER"] \in {None, ""}
  \/ \E n \in RequiredOptions : options0[n] = None

\* C3: with a credential unset or empty or a required option unset,
\* construction ends in a configuration error and no can_skip or build step
\* (no collaborator call, no gate acquire) is ever performed.
C3_ConfigErrorBeforeWork ==
  ConfigMissing =>
    /\ command \in {"new", "config_error"}
    /\ \A b \in Builds : build[b] = IdleBuild /\ skip[b] = IdleSkip

\* C3 witness: construction was attempted with only BINTRAY_USER empty.
C3_Witness ==
  /\ command = "config_error"
  /\ environ["BINTRAY_KEY"] = "x"
  /\ environ["BINTRAY_USER"] = ""
  /\ \A n \in RequiredOptions : options0[n] # None

\* C10: can_skip on a repository of the static exclusion set returns true
\* with no version lookup and no already-published check; on any other
\* repository it makes exactly one version lookup and one already-published
\* check, for that repository and the version looked up, and returns that
\* check's answer.
C10_CanSkip ==
  \A b \in Builds :
    skip[b].pc = "returned" =>
      IF RepositoryName(b) \in NON_DEBIAN_BOM_REPOSITORIES
        THEN /\ skip[b].result = TRUE
             /\ skip[b].version_lookups = <<>>
             /\ skip[b].bintray_checks = <<>>
        ELSE /\ Len(skip[b].version_lookups) = 1
             /\ Len(skip[b].bintray_checks) = 1
             /\ skip[b].version_lookups[1].repository = RepositoryName(b)
             /\ skip[b].bintray_checks[1].repository = RepositoryName(b)
             /\ skip[b].bintray_checks[1].build_version = skip[b].version_lookups[1].answer
             /\ skip[b].result = skip[b].bintray_checks[1].answer

\* C10 witness: can_skip has returned for an excluded repository and, with
\* the answer false, for another one.
C10_Witness ==
  /\ \E b \in Builds :
       /\ skip[b].pc = "returned"
       /\ RepositoryName(b) \in NON_DEBIAN_BOM_REPOSITORIES
  /\ \E b \in Builds :
       /\ skip[b].pc = "returned"
       /\ RepositoryName(b) \notin NON_DEBIAN_BOM_REPOSITORIES
       /\ skip[b].result = FALSE

(***************************************************************************)
(* Properties of the trigger operation and its status.                     *)
(***************************************************************************)
\* time since started_at
Elapsed == now - status.start

\* C4: once finished_ok is true no step makes it false or changes timed_out,
\* and a refresh() then changes nothing of the status and calls neither the
\* delegate nor any other collaborator.
C4_RefreshNoOpOnceFinishedOk ==
  [][(status.live /\ status.finished_ok) =>
       /\ status'.finished_ok
       /\ status'.is_timed_out = status.is_timed_out
       /\ trigger_status' = trigger_status
       /\ calls' = calls
       /\ (last'.op = "refresh" => ~last'.polled /\ status' = status)]_vars

\* C4 witness: refresh() was called on a status whose finished_ok was true.
C4_Witness ==
  /\ status.finished_ok
  /\ last.op = "refresh"
  /\ last.pre_ok

\* C5: right after a refresh() that started with finished_ok false and in
\* which the delegate reported not finished, timed_out is true exactly when
\* the elapsed time is strictly greater than timeout_delta, and then finished
\* is true as well.
C5_TimedOutIsElapsedOverTimeout ==
  (last.op = "refresh" /\ ~last.pre_ok /\ last.polled /\ ~last.reported) =>
    /\ Elapsed > status.timeout_delta => status.is_timed_out /\ Finished(status)
    /\ Elapsed <= status.timeout_delta => ~status.is_timed_out

\* C5 witness: such a refresh() happened when the elapsed time was exactly
\* the timeout.
C5_Witness ==
  /\ last.op = "refresh" /\ ~last.pre_ok /\ last.polled /\ ~last.reported
  /\ Elapsed = status.timeout_delta
  /\ ~status.is_timed_out

\* C6: right after a refresh() in which the delegate reported completion,
\* finished_ok is true and timed_out is what it was before the call; after the
\* first refresh() of the status that means timed_out is false, whatever the
\* elapsed time.
C6_CompletionSkipsTimeout ==
  (last.op = "refresh" /\ last.polled /\ last.reported) =>
    /\ status.finished_ok
    /\ status.is_timed_out = last.pre_timed_out
    /\ last.first => ~status.is_timed_out

\* C6 witness: the delegate reported completion on the first refresh(), made
\* after the timeout had elapsed.
C6_Witness ==
  /\ last.op = "refresh" /\ last.polled /\ last.reported /\ last.first
  /\ Elapsed > status.timeout_delta
  /\ status.finished_ok

\* the TIMED_OUT state
IsTimedOutState(st) == st.live /\ st.is_timed_out /\ ~st.finished_ok

\* C7 as claimed: once timed_out is true with finished_ok false, every later
\* step leaves timed_out true and finished_ok false.
C7_TimedOutAbsorbing ==
  [][IsTimedOutState(status) => IsTimedOutState(status')]_vars

\* C7 amended: from timed_out true with finished_ok false, a clock advance or
\* a timeout_delta assignment leaves both as they are; a refresh() in which
\* the delegate reports completion sets finished_ok and keeps timed_out; a
\* refresh() in which it reports not finished keeps finished_ok false and
\* leaves timed_out true exactly when the elapsed time still exceeds the
\* current timeout_delta.
C7_TimedOutUntilRefreshed ==
  [][IsTimedOutState(status) =>
       IF last'.op = "refresh"
         THEN /\ last'.polled
              /\ last'.reported => status'.finished_ok /\ status'.is_timed_out
              /\ ~last'.reported =>
                   /\ ~status'.finished_ok
                   /\ status'.is_timed_out = (Elapsed > status.timeout_delta)
         ELSE IsTimedOutState(status')]_vars

\* C7 witness: a refresh() made in the TIMED_OUT state left it there.
C7_Witness ==
  /\ IsTimedOutState(status)
  /\ last.op = "refresh"
  /\ last.pre_timed_out /\ ~last.pre_ok

\* C8: the status, the delegate and the status-source lookup exist only after
\* upload_file has returned; if upload_file raised, execute() has failed with
\* no status, no lookup and the operation as it was before the call.
C8_UploadFailureLeavesNothing ==
  /\ (status.live \/ trigger_status.bound \/ calls.get > 0) =>
       calls.upload_file_ok = 1
  /\ (calls.upload_file = 1 /\ calls.upload_file_ok = 0
        /\ operation.pc # "upload_file") =>
       /\ operation.pc = "upload_raised"
       /\ operation.agent = "gcs_pubsub_agent"
       /\ ~status.live
       /\ trigger_status = NoDelegate
       /\ calls.get = 0

\* C8 witness: upload_file has raised.
C8_Witness ==
  /\ operation.pc = "upload_raised"
  /\ calls.upload_file = 1

\* C9 as claimed: if the status-source lookup of the status constructor
\* fails, no status is observable and the agent bound to the operation is the
\* one it had before construction started.
C9_LookupFailureAtomic ==
  operation.pc = "get_raised" =>
    /\ ~status.live
    /\ operation.agent = "gcs_pubsub_agent"

(***************************************************************************)
(* Further properties of the build dispatcher.                             *)
(***************************************************************************)
\* whether an argument list holds the skip-tests flag
HasSkipTests(args) == \E i \in 1..Len(args) : args[i] = "-x test"

\* C11: the argument list passed to check_run holds the skip-tests flag
\* exactly when run_unit_tests is false, or the repository is deck and
\* CHROME_BIN is absent from the environment.
C11_SkipTestsFlag ==
  \A b \in Builds :
    build[b].pc = "check_run" =>
      (HasSkipTests(build[b].args) <=>
         \/ options0["run_unit_tests"] = FALSE
         \/ (RepositoryName(b) = "deck" /\ environ["CHROME_BIN"] = None))

\* C11 witness: with run_unit_tests true and CHROME_BIN absent, deck runs
\* with the flag while orca runs without it.
C11_Witness ==
  /\ options0["run_unit_tests"] = TRUE
  /\ environ["CHROME_BIN"] = None
  /\ \E b \in Builds :
       /\ RepositoryName(b) = "deck"
       /\ build[b].pc = "check_run"
       /\ HasSkipTests(build[b].args)
  /\ \E b \in Builds :
       /\ RepositoryName(b) = "orca"
       /\ build[b].pc = "check_run"
       /\ ~HasSkipTests(build[b].args)

\* C13 as claimed: construction, can_skip and build leave every option of
\* the options object at the value the caller gave it.
C13_OptionsReadOnly == options = options0

\* C13 amended: construction, whether it succeeds or fails, sets
\* github_disable_upstream_push to true and changes no other option; can_skip
\* and build change no option.
C13_OnlyUpstreamPushForced ==
  /\ command = "new" => options = options0
  /\ command # "new" =>
       options = [options0 EXCEPT !["github_disable_upstream_push"] = TRUE]

\* C13 witness: a failed construction has turned the option on.
C13_Witness ==
  /\ options0["github_disable_upstream_push"] = FALSE
  /\ options["github_disable_upstream_push"] = TRUE
  /\ command = "config_error"

\* whether sequence s is a prefix of sequence t
IsPrefix(s, t) == Len(s) <= Len(t) /\ \A i \in 1..Len(s) : s[i] = t[i]

\* C15: an invocation calls check_run at most once, only after its acquire
\* and before its release, and an invocation that has ended, in success or in
\* failure, made exactly the calls acquire, check_run, release, in that order.
C15_OneCheckRunInsideGate ==
  \A b \in Builds :
    /\ IsPrefix(build[b].trace, <<"acquire", "check_run", "release">>)
    /\ build[b].runs <= 1
    /\ build[b].pc \in {"done", "failed"} =>
         /\ build[b].trace = <<"acquire", "check_run", "release">>
         /\ build[b].runs = 1

\* C15 witness: an invocation whose check_run raised has ended.
C15_Witness ==
  \E b \in Builds :
    /\ build[b].pc = "failed"
    /\ build[b].runs = 1
    /\ build[b].trace = <<"acquire", "check_run", "release">>

(***************************************************************************)
(* The dispatcher under the scheduling the claims on progress assume: a    *)
(* thread blocked on the semaphore gets a permit that stays free, every    *)
(* check_run call returns or raises, and a thread leaving the with block   *)
(* runs __exit__.                                                          *)
(***************************************************************************)
FairDispatcher ==
  \A b \in Builds :
    /\ WF_vars(SemaphoreAcquire(b))
    /\ WF_vars(CheckRunReturn(b) \/ CheckRunRaise(b))
    /\ WF_vars(SemaphoreRelease(b))

\* the configurations construction accepts, with every capacity; the options
\* and variables that only shape the argument list are held at one value
InitGate ==
  /\ environ = [n \in {"BINTRAY_KEY", "BINTRAY_USER", "CHROME_BIN"} |->
                  IF n = "CHROME_BIN" THEN None ELSE "x"]
  /\ \E cap \in Capacities :
       options = [n \in OptionNames |->
                    CASE n = "max_local_builds" -> cap
                      [] n = "run_unit_tests" -> TRUE
                      [] n = "gradle_cache_path" -> None
                      [] n = "github_disable_upstream_push" -> FALSE
                      [] OTHER -> "set"]
  /\ options0 = options
  /\ command = "new"
  /\ semaphore = None
  /\ build = [b \in Builds |-> IdleBuild]
  /\ skip = [b \in Builds |-> IdleSkip]
  /\ NoOperation

SpecDispatcherFair == InitGate /\ [][NextDispatcher]_vars /\ FairDispatcher

\* C16: every invocation that has reached the gate eventually acquires it,
\* runs check_run and ends, in success or in failure, whatever the other
\* invocations do, failing ones included.
C16_EveryBuildFinishes ==
  \A b \in Builds :
    (build[b].pc = "acquire") ~> (build[b].pc \in {"done", "failed"})

\* C16 witness: with a capacity of one, every invocation has ended and all
\* but one of them failed.
C16_Witness ==
  /\ options0["max_local_builds"] = 1
  /\ \A b \in Builds : build[b].pc \in {"done", "failed"}
  /\ Cardinality({b \in Builds : build[b].pc = "done"}) = 1

(***************************************************************************)
(* Further properties of the trigger operation and its status.             *)
(***************************************************************************)
\* The caller's poll loop: the status is refreshed again and again while the
\* clock advances, and timeout_delta is left as the constructor set it. The
\* fairness is on the refresh() calls alone, not on the delegate's answer: the
\* delegate may report not finished for ever.
NextPollLoop ==
  \/ Tick
  \/ Execute
  \/ UploadFileRaise
  \/ UploadFileReturn
  \/ GetRaise
  \/ GetReturn
  \/ \E reported \in BOOLEAN : Refresh(reported)

SpecPollLoop ==
  /\ InitTrigger
  /\ [][NextPollLoop]_vars
  /\ WF_vars(Tick)
  /\ WF_vars(Refresh(FALSE))

\* C12: a status whose timeout lies within the clock's range, and whose
\* timeout_delta is not reassigned, eventually has finished true when the
\* caller keeps refreshing it and time keeps passing, whatever the delegate
\* reports.
C12_PollLoopTerminates ==
  (status.live /\ status.start + status.timeout_delta < MaxTime)
    ~> Finished(status)

\* C12 witness: the poll loop ended by a timeout, the delegate never having
\* reported completion.
C12_Witness ==
  /\ status.live /\ status.start + status.timeout_delta < MaxTime
  /\ last.op = "refresh" /\ ~last.reported
  /\ status.is_timed_out /\ ~status.finished_ok
  /\ Finished(status)

\* C14: timed_out and finished_ok change in no step other than a refresh(),
\* so neither the passage of time nor a timeout_delta assignment changes
\* them or finished, and a status that was never refreshed is neither timed
\* out nor finished, however long after started_at.
C14_NoBackgroundTimer ==
  /\ [][last'.op # "refresh" =>
          /\ status'.is_timed_out = status.is_timed_out
          /\ status'.finished_ok = status.finished_ok
          /\ Finished(status') = Finished(status)]_vars
  /\ [](~refreshed => ~Finished(status))

\* C14 witness: a status never refreshed, past its timeout, is not timed out.
C14_Witness ==
  /\ status.live
  /\ ~refreshed
  /\ Elapsed > status.timeout_delta
  /\ ~status.is_timed_out

\* C17 as claimed: started_at is no later than the moment the creation-time
\* lookup was issued, exactly one lookup is issued, and finished_ok and
\* timed_out are false when the status is returned.
C17_StartBeforeLookup ==
  status.live =>
    /\ status.start <= operation.get_issued_at
    /\ calls.get = 1
    /\ last.op = "get_returned" => ~status.finished_ok /\ ~status.is_timed_out

\* C17 amended: started_at is recorded when the creation-time lookup has
\* returned, so it is no earlier than the moment the lookup was issued and the
\* time spent in the lookup does not count toward the timeout; exactly one
\* lookup is issued, and finished_ok and timed_out are false when the status
\* is returned.
C17_StartAfterLookup ==
  status.live =>
    /\ status.start >= operation.get_issued_at
    /\ calls.get = 1
    /\ last.op = "get_returned" =>
         /\ status.start = now
         /\ ~status.finished_ok /\ ~status.is_timed_out

\* C17 witness: a status was returned after a lookup during which time
\* passed.
C17_Witness ==
  /\ status.live
  /\ last.op = "get_returned"
  /\ status.start > operation.get_issued_at

\* C18 as claimed: finished_ok and timed_out are never both true.
C18_NeverBoth == ~(status.finished_ok /\ status.is_timed_out)

\* C18 amended: finished_ok and timed_out become both true in one kind of
\* step only, a refresh() of a status that had already timed out in which the
\* delegate reports completion; in particular a status that is not refreshed
\* again once finished is true never has both.
C18_BothOnlyByRefreshAfterTimeout ==
  [][(~(status.finished_ok /\ status.is_timed_out)
        /\ status'.finished_ok /\ status'.is_timed_out) =>
       /\ last'.op = "refresh"
       /\ last'.reported
       /\ status.is_timed_out /\ ~status.finished_ok]_vars

\* C18 witness: the delegate reported completion to a refresh() made after
\* the timeout had been detected.
C18_Witness ==
  /\ status.finished_ok /\ status.is_timed_out
  /\ last.op = "refresh" /\ last.reported /\ last.pre_timed_out

\* C19 as claimed: once finished is true it is true in every later state.
C19_FinishedMonotonic ==
  [][Finished(status) => Finished(status')]_vars

\* C19 amended: finished goes from true to false in one kind of step only, a
\* refresh() of a status that is timed out without finished_ok, in which the
\* delegate reports not finished and the elapsed time does not exceed the
\* current timeout_delta (so only after timeout_delta was raised); clock
\* advances, timeout_delta assignments and every refresh() once finished_ok is
\* true keep finished true.
C19_FinishedUntilTimeoutRaised ==
  [][(Finished(status) /\ ~Finished(status')) =>
       /\ last'.op = "refresh"
       /\ ~last'.reported
       /\ ~status.finished_ok
       /\ Elapsed <= status.timeout_delta]_vars

\* C19 witness: a refresh() has taken back a timeout after timeout_delta was
\* raised.
C19_Witness ==
  /\ last.op = "refresh"
  /\ last.pre_timed_out /\ ~last.pre_ok
  /\ ~Finished(status)

====
